---- MODULE Spec2Model ----
(***************************************************************************)
(* Golden Candle strategy simulator (src/golden_candle_simulator.py).      *)
(*                                                                         *)
(* Spec      : run_backtest, the bar-by-bar position engine.  The bar      *)
(*             table is read one row per step; the state is the locals of  *)
(*             run_backtest after each iteration of its loop.              *)
(* SpecGold  : is_gold_candle as a pure function of a featured row and a   *)
(*             config, both drawn from bounded sets.                       *)
(* SpecStats : calculate_stats applied to a ledger drawn from a bounded set. *)
(* SpecPipe  : run_backtest as a whole on a bar table, then calculate_stats.*)
(* SpecOpt   : optimize_parameters, one combination of the grid per step.  *)
(* SpecAuto  : run_backtest_auto (src/backtester_bot.py): validate_file,   *)
(*             load and prepare_data, run_backtest, calculate_stats.       *)
(* SpecFeat  : prepare_data and update_vol_ratio with the columns of the   *)
(*             table written out, applied to their own output.             *)
(* SpecSigma : run_backtest as a whole on prepared tables with sigma = 0   *)
(*             rows, under both values of skip_zero_sigma.                 *)
(*                                                                         *)
(* Numbers.  Prices, volumes and the money thresholds are integers.        *)
(* Quotients the code computes in floating point (dist, body_pct,          *)
(* vol_ratio, the commission) are kept as exact fractions <<n, d>> with    *)
(* d > 0 and compared by cross-multiplication; rounding of IEEE doubles    *)
(* is not modelled.                                                        *)
(* Weekday labels: the Russian labels of the column 'День' are written     *)
(* in English ("Sunday" is 'Воскресенье').                                 *)
(* Strings that the code compares (time_str >= fc_time) are sequences of   *)
(* character codes, compared as Python compares str.                       *)
(***************************************************************************)
EXTENDS Integers, Sequences, FiniteSets, TLC

VARIABLES
    cfg,            \* config: StrategyConfig passed to run_backtest
    pc,             \* "loop" while run_backtest iterates, "done" once it returned
    idx,            \* number of rows of df consumed so far (the next row index)
    vol_hist,       \* df['volume'] of the rows before idx, as far as rolling() reads them
    close,          \* local close of the last processed row
    day,            \* local day
    time_str,       \* local time_str
    signal,         \* is_gold_candle(row, config) of the last processed row ("None", "BUY", "SELL")
    in_position,    \* position state of run_backtest
    entry_price,
    side,
    entry_idx,      \* row index of the entry: stands for (entry_date, entry_time)
    max_profit,
    stop_at_zero,
    trades,         \* the ledger run_backtest appends to
    g_row,          \* SpecGold: the featured row handed to is_gold_candle
    g_cfg,          \* SpecGold: the config handed to is_gold_candle
    g_ret,          \* SpecGold: what is_gold_candle returned (<<>> before the call)
    p_df,           \* the bar table a caller holds and hands to run_backtest / optimize_parameters
    p_config,       \* the config (optimize_parameters: base_config) the caller hands over
    p_pc,           \* position of the caller: "validate", "run", "stats", "done", "rejected", "raised", "idle"
    p_trades,       \* the ledger run_backtest returned to the caller
    p_stats,        \* what calculate_stats returned (<<>> before the call)
    a_file,         \* run_backtest_auto: the file named by file_path
    o_grid,         \* optimize_parameters: param_grid, a sequence of <<key, values>> in dict order
    o_k,            \* optimize_parameters: number of combinations of the product consumed
    o_results,      \* optimize_parameters: the list results
    o_configs,      \* optimize_parameters: the configs handed to run_backtest, in call order
    o_table,        \* optimize_parameters: the returned table (<<>> before the return)
    o_pc,           \* optimize_parameters: "loop", "returned", "raised", "idle"
    f_df,           \* feature derivation: the table handed to prepare_data / update_vol_ratio
    f_out,          \* feature derivation: the table the last call returned (<<>> before a call)
    f_lb,           \* feature derivation: the window of the last call (0 before a call)
    f_n             \* feature derivation: number of calls made

engine_vars == <<cfg, pc, idx, vol_hist, close, day, time_str, signal, in_position,
                 entry_price, side, entry_idx, max_profit, stop_at_zero, trades>>
gold_vars == <<g_row, g_cfg, g_ret>>
pipe_vars == <<p_df, p_config, p_pc, p_trades, p_stats, a_file>>
opt_vars == <<o_grid, o_k, o_results, o_configs, o_table, o_pc>>
feat_vars == <<f_df, f_out, f_lb, f_n>>
vars == <<cfg, pc, idx, vol_hist, close, day, time_str, signal, in_position,
          entry_price, side, entry_idx, max_profit, stop_at_zero, trades,
          g_row, g_cfg, g_ret,
          p_df, p_config, p_pc, p_trades, p_stats, a_file,
          o_grid, o_k, o_results, o_configs, o_table, o_pc,
          f_df, f_out, f_lb, f_n>>

(***************************************************************************)
(* Bounds of the model                                                     *)
(***************************************************************************)
\* longest bar table: len(df) <= MaxBars
MaxBars == 4

(***************************************************************************)
(* Exact fractions                                                         *)
(***************************************************************************)
Frac(n, d) == <<n, d>>
FracOfInt(n) == <<n, 1>>
FracLe(a, b) == a[1] * b[2] <= b[1] * a[2]
FracLt(a, b) == a[1] * b[2] < b[1] * a[2]
FracGe(a, b) == FracLe(b, a)
FracNeg(a) == <<0 - a[1], a[2]>>
FracSub(a, b) == <<a[1] * b[2] - b[1] * a[2], a[2] * b[2]>>
FracEq(a, b) == a[1] * b[2] = b[1] * a[2]
Abs(x) == IF x < 0 THEN 0 - x ELSE x
Max(x, y) == IF x >= y THEN x ELSE y

(***************************************************************************)
(* Strings as sequences of character codes                                 *)
(***************************************************************************)
\* "HH:MM:SS" as str(datetime.time) prints it ('0' is 48, ':' is 58)
ClockStr(h, m) ==
    <<48 + (h \div 10), 48 + (h % 10), 58, 48 + (m \div 10), 48 + (m % 10), 58, 48, 48>>
\* s[:n]
Prefix(s, n) == SubSeq(s, 1, IF Len(s) < n THEN Len(s) ELSE n)
\* Python's a < b on str: first differing character decides, a proper prefix is smaller
RECURSIVE StrLt(_, _)
StrLt(a, b) ==
    IF b = <<>> THEN FALSE
    ELSE IF a = <<>> THEN TRUE
    ELSE IF Head(a) # Head(b) THEN Head(a) < Head(b)
    ELSE StrLt(Tail(a), Tail(b))
StrGe(a, b) == ~StrLt(a, b)

(***************************************************************************)
(* Configs and bar tables the engine is run on                             *)
(***************************************************************************)
\* rolling(6) of prepare_data, and the value run_backtest tests vol_lookback against
DefaultLookback == 6
\* StrategyConfig.__post_init__: no_entry_days = None becomes Friday, Saturday, Sunday
DefaultNoEntryDays == {"Friday", "Saturday", "Sunday"}
\* an Optional[float]: <<>> is None, <<x>> is the number x
None == <<>>
Some(x) == <<x>>

\* A StrategyConfig scaled to the prices and volumes of Bars: tp, sl, trail_trigger
\* in price units (tp and sl are absolute values, hence positive), the sigma, body
\* and volume thresholds scaled alike; fc_time and commission as in ETH_CONFIG.
BaseConfig ==
    [entry_sigma |-> 1, max_sigma |-> None, vol_multiplier |-> 1, vol_lookback |-> 1,
     min_body_pct |-> 5, max_body_pct |-> 30,
     tp |-> 3, sl |-> 2, trail_trigger |-> 2,
     no_entry_days |-> DefaultNoEntryDays, fc_time |-> Prefix(ClockStr(23, 30), 5),
     commission |-> Frac(5, 10000), skip_zero_sigma |-> TRUE]
\* the configs run_backtest is run with: BaseConfig and one field changed at a time
Configs ==
    { BaseConfig,
      [BaseConfig EXCEPT !.vol_lookback = 2],
      [BaseConfig EXCEPT !.trail_trigger = 0],
      [BaseConfig EXCEPT !.sl = 1],
      [BaseConfig EXCEPT !.no_entry_days = {}] }

Closes == 10 .. 13
\* raw rows of the input table (date and week_key are only copied to the ledger;
\* the row index stands for the date)
Bars ==
    [close : Closes, open : {11}, VWAP : {9, 14}, sigma : {0, 1}, volume : {1, 3},
     day : {"Monday", "Sunday"}, time : {ClockStr(12, 0), ClockStr(23, 30)}]

(***************************************************************************)
(* prepare_data / update_vol_ratio, row by row                             *)
(***************************************************************************)
NaN == [kind |-> "nan", val |-> <<0, 1>>]
Inf == [kind |-> "inf", val |-> <<0, 1>>]
Num(f) == [kind |-> "num", val |-> f]

\* df['dist'] = np.where(sigma > 0, (close - VWAP) / sigma, 0)
Dist(bar) ==
    IF bar.sigma > 0 THEN Frac(bar.close - bar.VWAP, bar.sigma) ELSE FracOfInt(0)
\* df['body'] = abs(close - open); df['body_pct'] = body / close * 100
BodyPct(bar) == Frac(Abs(bar.close - bar.open) * 100, bar.close)

RECURSIVE SeqSum(_)
SeqSum(s) == IF s = <<>> THEN 0 ELSE Head(s) + SeqSum(Tail(s))
\* the last n elements of s (all of s when it is shorter)
LastN(s, n) == IF Len(s) <= n THEN s ELSE SubSeq(s, Len(s) - n + 1, Len(s))

\* mutant of AvgVol: rolling(lookback, min_periods=1), defined from the second row on
AvgVol_MinPeriods1(hist, lookback) ==
    IF hist = <<>> THEN NaN
    ELSE Num(Frac(SeqSum(LastN(hist, lookback)), Len(LastN(hist, lookback))))

\* df['volume'].shift(1).rolling(lookback).mean() at a row whose preceding volumes
\* are hist: NaN until lookback rows precede it
AvgVol(hist, lookback) ==
    IF Len(hist) < lookback THEN NaN
    ELSE Num(Frac(SeqSum(LastN(hist, lookback)), lookback))
\* df['vol_ratio'] = df['volume'] / df['avg_vol'] (x/0 is inf, 0/0 and x/NaN are NaN)
VolRatio(volume, avg) ==
    IF avg.kind # "num" THEN NaN
    ELSE IF avg.val[1] = 0 THEN (IF volume = 0 THEN NaN ELSE Inf)
    ELSE Num(Frac(volume * avg.val[2], avg.val[1]))

\* run_backtest's choice of derivation: update_vol_ratio(df, vol_lookback) when
\* vol_lookback != 6, else prepare_data(df), whose window is 6
Lookback(config) ==
    IF config.vol_lookback # DefaultLookback THEN config.vol_lookback ELSE DefaultLookback

\* df.iloc[idx] after the derivation, for an input table that went through
\* prepare_data (run_backtest.py:175, backtester_bot.py:195)
FeaturedRow(bar, hist, config) ==
    [close |-> bar.close, sigma |-> bar.sigma, dist |-> Dist(bar),
     body_pct |-> BodyPct(bar),
     vol_ratio |-> VolRatio(bar.volume, AvgVol(hist, Lookback(config))),
     day |-> bar.day, time |-> bar.time]

(***************************************************************************)
(* is_gold_candle                                                          *)
(***************************************************************************)
\* row['vol_ratio'] < x on a float that may be NaN or inf
VolRatioLt(vr, x) == vr.kind = "num" /\ FracLt(vr.val, FracOfInt(x))

\* mutant of BuyCond: dist > entry_sigma
BuyCond_Strict(row, config) ==
    /\ FracLt(FracOfInt(config.entry_sigma), row.dist)
    /\ (config.max_sigma = None \/ FracLe(row.dist, FracOfInt(config.max_sigma[1])))

\* line 202-203: dist >= entry_sigma and (max_sigma is None or dist <= max_sigma)
BuyCond(row, config) ==
    /\ FracGe(row.dist, FracOfInt(config.entry_sigma))
    /\ (config.max_sigma = None \/ FracLe(row.dist, FracOfInt(config.max_sigma[1])))
\* mutant of SellCond: dist <= entry_sigma (the sign of entry_sigma lost)
SellCond_SignLost(row, config) ==
    /\ FracLe(row.dist, FracOfInt(config.entry_sigma))
    /\ (config.max_sigma = None \/ FracGe(row.dist, FracOfInt(0 - config.max_sigma[1])))

\* line 207-208: dist <= -entry_sigma and (max_sigma is None or dist >= -max_sigma)
SellCond(row, config) ==
    /\ FracLe(row.dist, FracOfInt(0 - config.entry_sigma))
    /\ (config.max_sigma = None \/ FracGe(row.dist, FracOfInt(0 - config.max_sigma[1])))

\* mutant of is_gold_candle: lines 194-196 (the skip of sigma = 0) are missing
is_gold_candle_NoSkip(row, config) ==
    IF row.vol_ratio.kind = "nan" \/ VolRatioLt(row.vol_ratio, config.vol_multiplier)
    THEN <<FALSE, "None">>
    ELSE IF ~(/\ FracLe(FracOfInt(config.min_body_pct), row.body_pct)
              /\ FracLe(row.body_pct, FracOfInt(config.max_body_pct)))
    THEN <<FALSE, "None">>
    ELSE IF BuyCond(row, config) THEN <<TRUE, "BUY">>
    ELSE IF SellCond(row, config) THEN <<TRUE, "SELL">>
    ELSE <<FALSE, "None">>

\* returns <<is_gold, side>>
is_gold_candle(row, config) ==
    IF row.vol_ratio.kind = "nan" \/ VolRatioLt(row.vol_ratio, config.vol_multiplier)
    THEN <<FALSE, "None">>
    ELSE IF ~(/\ FracLe(FracOfInt(config.min_body_pct), row.body_pct)
              /\ FracLe(row.body_pct, FracOfInt(config.max_body_pct)))
    THEN <<FALSE, "None">>
    ELSE IF config.skip_zero_sigma /\ row.sigma = 0
    THEN <<FALSE, "None">>
    ELSE IF BuyCond(row, config) THEN <<TRUE, "BUY">>
    ELSE IF SellCond(row, config) THEN <<TRUE, "SELL">>
    ELSE <<FALSE, "None">>

(***************************************************************************)
(* run_backtest: one iteration of the loop over df                         *)
(***************************************************************************)
\* lines 264-267
CurrentPnl(sd, entry, cl) == IF sd = "BUY" THEN cl - entry ELSE entry - cl

\* lines 270-271
MaxProfit(mp, cur) == IF cur > mp THEN cur ELSE mp

\* mutant of Armed: the flag follows the current bar only
Armed_NotSticky(saz, cur, config) == cur >= config.trail_trigger

\* lines 274-275: stop_at_zero after the arming test
Armed(saz, cur, config) == saz \/ cur >= config.trail_trigger

\* mutant of ForcedClose: time_str > config.fc_time
ForcedClose_Strict(d, t, config) == d = "Sunday" /\ StrLt(config.fc_time, t)

\* line 297: day == 'Воскресенье' and time_str >= config.fc_time
ForcedClose(d, t, config) == d = "Sunday" /\ StrGe(t, config.fc_time)

\* mutant of ExitOutcome: the STOP0 branch does not test stop_at_zero
ExitOutcome_Stop0Unarmed(cur, armed, d, t, config) ==
    IF cur >= config.tp THEN "TP"
    ELSE IF cur <= 0 - config.sl THEN "SL"
    ELSE IF cur <= 0 THEN "STOP0"
    ELSE IF d = "Sunday" /\ StrGe(t, config.fc_time) THEN "FC"
    ELSE "None"

\* mutant of ExitOutcome: the STOP0 branch tested before the SL branch
ExitOutcome_Stop0BeforeSL(cur, armed, d, t, config) ==
    IF cur >= config.tp THEN "TP"
    ELSE IF armed /\ cur <= 0 THEN "STOP0"
    ELSE IF cur <= 0 - config.sl THEN "SL"
    ELSE IF d = "Sunday" /\ StrGe(t, config.fc_time) THEN "FC"
    ELSE "None"

\* mutant of ExitOutcome: the forced close is tested first
ExitOutcome_FcFirst(cur, armed, d, t, config) ==
    IF d = "Sunday" /\ StrGe(t, config.fc_time) THEN "FC"
    ELSE IF cur >= config.tp THEN "TP"
    ELSE IF cur <= 0 - config.sl THEN "SL"
    ELSE IF armed /\ cur <= 0 THEN "STOP0"
    ELSE "None"

\* lines 278-298: the if / elif chain; "None" when no branch is taken
ExitOutcome(cur, armed, d, t, config) ==
    IF cur >= config.tp THEN "TP"
    ELSE IF cur <= 0 - config.sl THEN "SL"
    ELSE IF armed /\ cur <= 0 THEN "STOP0"
    ELSE IF ForcedClose(d, t, config) THEN "FC"
    ELSE "None"

\* mutant of ExitPnl: the SL branch keeps current_pnl (exit_pnl = -config.sl forgotten)
ExitPnl_UncappedSL(out, cur, config) ==
    CASE out = "TP" -> config.tp
      [] out = "STOP0" -> 0
      [] OTHER -> cur

\* exit_pnl: current_pnl unless the branch taken overwrites it
ExitPnl(out, cur, config) ==
    CASE out = "TP" -> config.tp
      [] out = "SL" -> 0 - config.sl
      [] out = "STOP0" -> 0
      [] OTHER -> cur

\* line 302: comm = (entry_price + close) * config.commission
Commission(entry, cl, config) ==
    Frac((entry + cl) * config.commission[1], config.commission[2])

\* mutant of Trade: exit_date, exit_time are taken from entry_date, entry_time
Trade_ExitAtEntry(sd, eidx, xidx, entry, cl, out, cur, config) ==
    [side |-> sd, entry_idx |-> eidx, exit_idx |-> eidx,
     entry_price |-> entry, exit_price |-> cl,
     pnl |-> FracSub(FracOfInt(ExitPnl(out, cur, config)), Commission(entry, cl, config)),
     outcome |-> out]

\* lines 303-314: the appended record (exit_idx stands for exit_date, exit_time)
Trade(sd, eidx, xidx, entry, cl, out, cur, config) ==
    [side |-> sd, entry_idx |-> eidx, exit_idx |-> xidx,
     entry_price |-> entry, exit_price |-> cl,
     pnl |-> FracSub(FracOfInt(ExitPnl(out, cur, config)), Commission(entry, cl, config)),
     outcome |-> out]

\* mutant of StillOpen: line 315 (in_position = False) forgotten
StillOpen_NoReset(was_in, out) == was_in

\* line 315: in_position after the management block (False once a trade was appended)
StillOpen(was_in, out) == was_in /\ out = "None"

\* mutant of EntryAllowed: the weekday test is missing
EntryAllowed_Always(d, config) == TRUE

\* line 320: the entry block is left when day is in config.no_entry_days
EntryAllowed(d, config) == d \notin config.no_entry_days

\* mutant of EntryEvaluated: the entry block is an else branch of "if in_position"
EntryEvaluated_Else(was_in, out, d, config) == ~was_in /\ EntryAllowed(d, config)

\* lines 318-321: the classifier is consulted when the engine is flat after the
\* management block, on a day that allows entries
EntryEvaluated(was_in, out, d, config) ==
    ~StillOpen(was_in, out) /\ EntryAllowed(d, config)

\* the variables of the callers (pipeline, run_backtest_auto, optimize_parameters)
\* while no caller runs
IdlePipe ==
    /\ p_df = <<>>
    /\ p_config = <<>>
    /\ p_pc = "idle"
    /\ p_trades = <<>>
    /\ p_stats = <<>>
    /\ a_file = <<>>
IdleOpt ==
    /\ o_grid = <<>>
    /\ o_k = 0
    /\ o_results = <<>>
    /\ o_configs = <<>>
    /\ o_table = <<>>
    /\ o_pc = "idle"
IdleFeat ==
    /\ f_df = <<>>
    /\ f_out = <<>>
    /\ f_lb = 0
    /\ f_n = 0
\* the locals of run_backtest and the arguments of is_gold_candle while the
\* engine is followed through a caller (RunBacktest below) and not step by step
IdleEngine ==
    /\ cfg = BaseConfig
    /\ pc = "done"
    /\ idx = 0
    /\ vol_hist = <<>>
    /\ close = 0
    /\ day = "None"
    /\ time_str = <<>>
    /\ signal = "None"
    /\ in_position = FALSE
    /\ entry_price = 0
    /\ side = "None"
    /\ entry_idx = 0
    /\ max_profit = 0
    /\ stop_at_zero = FALSE
    /\ trades = <<>>
IdleGold ==
    /\ g_row = <<>>
    /\ g_cfg = <<>>
    /\ g_ret = <<>>

Init ==
    /\ cfg \in Configs
    /\ pc = "loop"
    /\ idx = 0
    /\ vol_hist = <<>>
    /\ close = 0
    /\ day = "None"
    /\ time_str = <<>>
    /\ signal = "None"
    /\ in_position = FALSE
    /\ entry_price = 0
    /\ side = "None"
    /\ entry_idx = 0
    /\ max_profit = 0
    /\ stop_at_zero = FALSE
    /\ trades = <<>>
    /\ g_row = <<>>
    /\ g_cfg = <<>>
    /\ g_ret = <<>>
    /\ IdlePipe
    /\ IdleOpt
    /\ IdleFeat

\* Row 0 is never iterated over (range(1, len(df))): only its volume is read, by
\* the rolling mean of the rows after it.
SeedBar ==
    /\ pc = "loop"
    /\ idx = 0
    /\ MaxBars >= 1
    /\ \E bar \in Bars :
         vol_hist' = LastN(<<bar.volume>>, Lookback(cfg))
    /\ idx' = 1
    /\ UNCHANGED <<cfg, pc, close, day, time_str, signal, in_position, entry_price,
                   side, entry_idx, max_profit, stop_at_zero, trades>>
    /\ UNCHANGED <<gold_vars, pipe_vars, opt_vars, feat_vars>>

\* The body of the loop for row idx.
ProcessBar ==
    /\ pc = "loop"
    /\ idx >= 1
    /\ idx < MaxBars
    /\ \E bar \in Bars :
         LET row == FeaturedRow(bar, vol_hist, cfg)
             t == Prefix(bar.time, 5)
             cur == CurrentPnl(side, entry_price, bar.close)
             armed == Armed(stop_at_zero, cur, cfg)
             out == IF in_position
                    THEN ExitOutcome(cur, armed, bar.day, t, cfg)
                    ELSE "None"
             still == StillOpen(in_position, out)
             gold == is_gold_candle(row, cfg)
             enter == EntryEvaluated(in_position, out, bar.day, cfg) /\ gold[1]
         IN  /\ close' = bar.close
             /\ day' = bar.day
             /\ time_str' = t
             /\ signal' = gold[2]
             /\ vol_hist' = LastN(Append(vol_hist, bar.volume), Lookback(cfg))
             /\ trades' = IF in_position /\ out # "None"
                          THEN Append(trades,
                                      Trade(side, entry_idx, idx, entry_price, bar.close,
                                            out, cur, cfg))
                          ELSE trades
             /\ in_position' = (still \/ enter)
             /\ entry_price' = IF enter THEN bar.close ELSE entry_price
             /\ side' = IF enter THEN gold[2] ELSE side
             /\ entry_idx' = IF enter THEN idx ELSE entry_idx
             /\ max_profit' = IF enter THEN 0
                              ELSE IF in_position THEN MaxProfit(max_profit, cur)
                              ELSE max_profit
             /\ stop_at_zero' = IF enter THEN FALSE
                                ELSE IF in_position THEN armed
                                ELSE stop_at_zero
    /\ idx' = idx + 1
    /\ UNCHANGED <<cfg, pc>>
    /\ UNCHANGED <<gold_vars, pipe_vars, opt_vars, feat_vars>>

\* The loop ends when idx reaches len(df); run_backtest returns the ledger.  A
\* position that is still open stays open.
Return ==
    /\ pc = "loop"
    /\ pc' = "done"
    /\ UNCHANGED <<cfg, idx, vol_hist, close, day, time_str, signal, in_position,
                   entry_price, side, entry_idx, max_profit, stop_at_zero, trades>>
    /\ UNCHANGED <<gold_vars, pipe_vars, opt_vars, feat_vars>>

Next == SeedBar \/ ProcessBar \/ Return

Spec == Init /\ [][Next]_vars

(***************************************************************************)
(* SpecGold: is_gold_candle on its own                                     *)
(***************************************************************************)
\* rows for the classifier: raw rows around close = 10, so that dist ranges over
\* -2 .. 2 and body_pct over 0, 10, 20
GoldBars ==
    [close : {10}, open : {8, 9, 10}, VWAP : 8 .. 12, sigma : {0, 1}, volume : {0, 3},
     day : {"Monday"}, time : {ClockStr(12, 0)}]
\* the volumes before the row: none (warm-up), a zero volume, and two ordinary ones
GoldHists == {<<>>, <<0>>, <<3>>, <<6>>}
\* StrategyConfig has no validation: entry_sigma <= 0 and max_sigma < entry_sigma
\* can be constructed
GoldConfigs ==
    { [BaseConfig EXCEPT !.entry_sigma = es, !.max_sigma = ms, !.min_body_pct = bp[1],
                         !.max_body_pct = bp[2], !.skip_zero_sigma = sk] :
        es \in {0 - 1, 0, 1, 2}, ms \in {None, Some(1), Some(2)},
        bp \in {<<0, 10>>, <<10, 20>>}, sk \in BOOLEAN }

InitGold ==
    /\ g_cfg \in GoldConfigs
    /\ \E bar \in GoldBars, hist \in GoldHists :
         g_row = FeaturedRow(bar, hist, g_cfg)
    /\ g_ret = <<>>
    /\ cfg = BaseConfig
    /\ pc = "done"
    /\ idx = 0
    /\ vol_hist = <<>>
    /\ close = 0
    /\ day = "None"
    /\ time_str = <<>>
    /\ signal = "None"
    /\ in_position = FALSE
    /\ entry_price = 0
    /\ side = "None"
    /\ entry_idx = 0
    /\ max_profit = 0
    /\ stop_at_zero = FALSE
    /\ trades = <<>>
    /\ IdlePipe
    /\ IdleOpt
    /\ IdleFeat

CallGold ==
    /\ g_ret = <<>>
    /\ g_ret' = is_gold_candle(g_row, g_cfg)
    /\ UNCHANGED <<g_row, g_cfg>>
    /\ UNCHANGED <<engine_vars, pipe_vars, opt_vars, feat_vars>>

NextGold == CallGold

SpecGold == InitGold /\ [][NextGold]_vars

(***************************************************************************)
(* Vocabulary of the properties                                            *)
(***************************************************************************)
\* the row processed last has index idx - 1; the loop processes rows 1, 2, ...
BarProcessed == idx >= 2
LastTrade == trades[Len(trades)]
\* a trade was appended while the last row was processed
JustClosed == Len(trades) > 0 /\ LastTrade.exit_idx = idx - 1
\* the open position was entered on the last row
JustEntered == in_position /\ entry_idx = idx - 1
\* this step is an iteration of the loop (for action properties)
Iterates == idx >= 1 /\ idx' = idx + 1
Emits == Len(trades') = Len(trades) + 1
\* unrealized pnl of a position of side sd entered at price p when the close is c
Unrealized(sd, p, c) == IF sd = "BUY" THEN c - p ELSE p - c
\* "HH:MM" as minutes since midnight
Minutes(s) == ((s[1] - 48) * 10 + (s[2] - 48)) * 60 + (s[4] - 48) * 10 + (s[5] - 48)

(***************************************************************************)
(* C1: run_backtest never emits two trades with the same exit bar, and the  *)
(* lifetimes of the trades never overlap: every trade's entry bar index is  *)
(* at least the previous trade's exit bar index (and so is the entry of the *)
(* position that is open now).                                              *)
(***************************************************************************)
C1_NoOverlap ==
    /\ \A i \in 1 .. Len(trades) :
         /\ trades[i].entry_idx < trades[i].exit_idx
         /\ i > 1 => /\ trades[i - 1].exit_idx < trades[i].exit_idx
                     /\ trades[i].entry_idx >= trades[i - 1].exit_idx
    /\ (in_position /\ Len(trades) > 0) => entry_idx >= LastTrade.exit_idx

\* two trades, the second entered on the bar that closed the first
C1_Witness ==
    /\ Len(trades) >= 2
    /\ trades[2].entry_idx = trades[1].exit_idx

(***************************************************************************)
(* C2: on every bar processed while a position is open the exit conditions  *)
(* are tested in the order TP, SL, STOP0, FC and the first one that holds   *)
(* is the outcome of the one trade appended; when none holds no trade is    *)
(* appended.  (Armed means: armed after this bar's arming test.)            *)
(***************************************************************************)
C2_FirstHolding(u, armedNow, d, t, config) ==
    IF u >= config.tp THEN "TP"
    ELSE IF u <= 0 - config.sl THEN "SL"
    ELSE IF armedNow /\ u <= 0 THEN "STOP0"
    ELSE IF d = "Sunday" /\ Minutes(t) >= Minutes(config.fc_time) THEN "FC"
    ELSE "None"

C2_Priority ==
    [][ (in_position /\ Iterates) =>
          LET u == Unrealized(side, entry_price, close')
              armedNow == stop_at_zero \/ u >= cfg.trail_trigger
              first == C2_FirstHolding(u, armedNow, day', time_str', cfg)
          IN  IF first = "None"
              THEN trades' = trades
              ELSE /\ Emits
                   /\ SubSeq(trades', 1, Len(trades)) = trades
                   /\ trades'[Len(trades')].outcome = first ]_vars

\* a trade closed as SL on a Sunday bar at or after fc_time with the trailing stop
\* armed: SL won over STOP0 and FC
C2_Witness ==
    /\ JustClosed
    /\ ~in_position
    /\ LastTrade.outcome = "SL"
    /\ stop_at_zero
    /\ Unrealized(LastTrade.side, LastTrade.entry_price, LastTrade.exit_price) <= 0 - cfg.sl
    /\ day = "Sunday"
    /\ Minutes(time_str) >= Minutes(cfg.fc_time)

(***************************************************************************)
(* C3: every trade of the ledger has pnl = capped_unrealized - (entry_price *)
(* + exit_price) * commission, with capped_unrealized = tp for TP, -sl for  *)
(* SL, 0 for STOP0 and the unrealized pnl at the exit bar for FC, so that   *)
(* |capped_unrealized| <= max(tp, sl) unless the outcome is FC; entry_price *)
(* is the close of the entry bar and exit_price the close of the exit bar.  *)
(***************************************************************************)
C3_Capped(t, config) ==
    CASE t.outcome = "TP" -> config.tp
      [] t.outcome = "SL" -> 0 - config.sl
      [] t.outcome = "STOP0" -> 0
      [] t.outcome = "FC" -> Unrealized(t.side, t.entry_price, t.exit_price)

C3_Ledger ==
    \A i \in 1 .. Len(trades) :
       LET t == trades[i]
           capped == C3_Capped(t, cfg)
           comm == Frac((t.entry_price + t.exit_price) * cfg.commission[1],
                        cfg.commission[2])
       IN  /\ t.outcome \in {"TP", "SL", "STOP0", "FC"}
           /\ FracEq(t.pnl, FracSub(FracOfInt(capped), comm))
           /\ t.outcome # "FC" => Abs(capped) <= Max(cfg.tp, cfg.sl)

C3_Prices ==
    /\ JustClosed => LastTrade.exit_price = close
    /\ JustEntered => entry_price = close

C3_PnlFormula ==
    /\ [](C3_Ledger /\ C3_Prices)
    /\ [][ (in_position /\ Iterates /\ Emits) =>
             /\ trades'[Len(trades')].entry_price = entry_price
             /\ trades'[Len(trades')].entry_idx = entry_idx
             /\ trades'[Len(trades')].side = side
             /\ trades'[Len(trades')].exit_idx = idx ]_vars

\* an SL trade whose unrealized pnl at the exit bar is below -sl: the cap matters
C3_Witness ==
    /\ JustClosed
    /\ LastTrade.outcome = "SL"
    /\ Unrealized(LastTrade.side, LastTrade.entry_price, LastTrade.exit_price) < 0 - cfg.sl
    /\ FracEq(LastTrade.pnl,
              Frac((0 - cfg.sl) * 10000 - (LastTrade.entry_price + LastTrade.exit_price) * 5,
                   10000))

(***************************************************************************)
(* C4: exit and re-entry happen on the same bar: when a position was closed *)
(* on the bar just processed, its weekday is not in no_entry_days and the   *)
(* classifier signals on it, a new position is open, entered on that bar at *)
(* its close with the classifier's side, max_profit 0 and the trailing stop *)
(* not armed.                                                               *)
(***************************************************************************)
C4_SameBarReentry ==
    (JustClosed /\ day \notin cfg.no_entry_days /\ signal # "None") =>
        /\ in_position
        /\ entry_idx = idx - 1
        /\ entry_idx = LastTrade.exit_idx
        /\ entry_price = close
        /\ side = signal
        /\ max_profit = 0
        /\ ~stop_at_zero

\* an armed position closed as STOP0 and replaced on the same bar
C4_Witness ==
    /\ JustClosed
    /\ LastTrade.outcome = "STOP0"
    /\ JustEntered
    /\ entry_price = LastTrade.exit_price
    /\ ~stop_at_zero

(***************************************************************************)
(* C5: a position that is open when a Sunday bar with time >= fc_time is    *)
(* processed is closed on that bar, as FC with pnl = unrealized minus the   *)
(* commission when none of TP, SL, STOP0 holds; every FC trade is closed on *)
(* such a bar; with the default no_entry_days the engine is flat after it.  *)
(***************************************************************************)
C5_FcBar(d, t, config) == d = "Sunday" /\ Minutes(t) >= Minutes(config.fc_time)

C5_AfterFcBar ==
    /\ (BarProcessed /\ C5_FcBar(day, time_str, cfg)) =>
          /\ in_position => JustEntered
          /\ cfg.no_entry_days = DefaultNoEntryDays => ~in_position
    /\ (JustClosed /\ LastTrade.outcome = "FC") => C5_FcBar(day, time_str, cfg)

C5_ForcedClose ==
    /\ []C5_AfterFcBar
    /\ [][ (in_position /\ Iterates /\ C5_FcBar(day', time_str', cfg)) =>
             LET u == Unrealized(side, entry_price, close')
                 armedNow == stop_at_zero \/ u >= cfg.trail_trigger
                 t == trades'[Len(trades')]
             IN  /\ Emits
                 /\ t.exit_idx = idx
                 /\ (u < cfg.tp /\ u > 0 - cfg.sl /\ ~(armedNow /\ u <= 0)) =>
                       /\ t.outcome = "FC"
                       /\ FracEq(t.pnl,
                                 FracSub(FracOfInt(u),
                                         Frac((entry_price + close') * cfg.commission[1],
                                              cfg.commission[2]))) ]_vars

\* a losing position closed by the forced close, at its (negative) unrealized pnl
C5_Witness ==
    /\ JustClosed
    /\ ~in_position
    /\ LastTrade.outcome = "FC"
    /\ Unrealized(LastTrade.side, LastTrade.entry_price, LastTrade.exit_price) < 0
    /\ time_str = Prefix(ClockStr(23, 30), 5)

(***************************************************************************)
(* C6: within a trade the trailing-armed flag is sticky: a bar with         *)
(* unrealized >= trail_trigger sets it, and it goes from true to false only *)
(* when a new position is opened; a newly opened position is not armed.     *)
(***************************************************************************)
C6_Sticky ==
    /\ [](JustEntered => ~stop_at_zero)
    /\ [][ /\ (stop_at_zero /\ ~stop_at_zero') =>
                (in_position' /\ entry_idx' = idx /\ idx' = idx + 1)
           /\ (in_position /\ Iterates /\ in_position' /\ entry_idx' = entry_idx
                 /\ Unrealized(side, entry_price, close') >= cfg.trail_trigger) =>
                stop_at_zero' ]_vars

\* an open position that is armed although its unrealized pnl is below the trigger
C6_Witness ==
    /\ in_position
    /\ ~JustEntered
    /\ stop_at_zero
    /\ Unrealized(side, entry_price, close) < cfg.trail_trigger

(***************************************************************************)
(* C7: a trade is closed as STOP0, capped pnl 0, exactly on a bar where the *)
(* trailing stop is armed, unrealized <= 0 and neither TP nor SL holds.  The*)
(* flag rises only on a bar of the open position with unrealized >=         *)
(* trail_trigger, so every STOP0 trade saw such a bar after its entry and   *)
(* not after its exit, before the exit bar when trail_trigger > 0; an       *)
(* unarmed position with -sl < unrealized <= 0 is never closed as STOP0.    *)
(***************************************************************************)
C7_Stop0 ==
    /\ []((in_position /\ cfg.trail_trigger > 0) =>
             (stop_at_zero <=> max_profit >= cfg.trail_trigger))
    /\ [][ /\ (~stop_at_zero /\ stop_at_zero') =>
                /\ in_position /\ Iterates
                /\ Unrealized(side, entry_price, close') >= cfg.trail_trigger
           /\ (in_position /\ Iterates) =>
                LET u == Unrealized(side, entry_price, close')
                    armedNow == stop_at_zero \/ u >= cfg.trail_trigger
                    stop0 == Emits /\ trades'[Len(trades')].outcome = "STOP0"
                    due == armedNow /\ u <= 0 /\ u < cfg.tp /\ u > 0 - cfg.sl
                IN  /\ stop0 <=> due
                    /\ stop0 =>
                         FracEq(trades'[Len(trades')].pnl,
                                FracSub(FracOfInt(0),
                                        Frac((entry_price + close') * cfg.commission[1],
                                             cfg.commission[2])))
                    /\ (stop0 /\ cfg.trail_trigger > 0) =>
                         (stop_at_zero /\ max_profit >= cfg.trail_trigger)
                    /\ (~armedNow /\ u <= 0 /\ u > 0 - cfg.sl) => ~stop0 ]_vars

\* a STOP0 trade closed at a negative unrealized pnl, armed on an earlier bar
C7_Witness ==
    /\ JustClosed
    /\ ~in_position
    /\ LastTrade.outcome = "STOP0"
    /\ cfg.trail_trigger > 0
    /\ stop_at_zero
    /\ max_profit >= cfg.trail_trigger
    /\ Unrealized(LastTrade.side, LastTrade.entry_price, LastTrade.exit_price) < 0

(***************************************************************************)
(* C8: no position is opened on a bar whose weekday is in no_entry_days     *)
(* (the entry bar of every trade is the bar its position was opened on),    *)
(* while the exit conditions of an open position are still evaluated there. *)
(***************************************************************************)
C8_NoEntryDays ==
    /\ [](JustEntered => day \notin cfg.no_entry_days)
    /\ [][ /\ (in_position /\ Iterates /\ Emits) =>
                trades'[Len(trades')].entry_idx = entry_idx
           /\ (in_position' /\ entry_idx' # entry_idx) =>
                (entry_idx' = idx /\ idx' = idx + 1 /\ day' \notin cfg.no_entry_days)
           /\ (in_position /\ Iterates /\ day' \in cfg.no_entry_days) =>
                LET u == Unrealized(side, entry_price, close')
                    armedNow == stop_at_zero \/ u >= cfg.trail_trigger
                IN  (C2_FirstHolding(u, armedNow, day', time_str', cfg) # "None") => Emits
         ]_vars

\* a take-profit on a no-entry day, on a bar that signals: closed, and not re-entered
C8_Witness ==
    /\ JustClosed
    /\ LastTrade.outcome = "TP"
    /\ day \in cfg.no_entry_days
    /\ signal # "None"
    /\ ~in_position

(***************************************************************************)
(* C9: is_gold_candle returns no signal when vol_ratio is undefined or      *)
(* below vol_multiplier, when body_pct is outside [min_body_pct,            *)
(* max_body_pct] (bounds inclusive), or when skip_zero_sigma is set and     *)
(* sigma = 0; otherwise BUY iff dist >= entry_sigma and (max_sigma unset or *)
(* dist <= max_sigma), SELL iff dist <= -entry_sigma and (max_sigma unset   *)
(* or dist >= -max_sigma), no signal otherwise.                             *)
(* As amended: SELL iff the SELL condition holds and the BUY condition does *)
(* not (BUY is tested first).                                               *)
(***************************************************************************)
Called == g_ret # <<>>
NoSignal == <<FALSE, "None">>

C9_Rejected(row, config) ==
    \/ row.vol_ratio.kind = "nan"
    \/ (row.vol_ratio.kind = "num" /\ FracLt(row.vol_ratio.val, FracOfInt(config.vol_multiplier)))
    \/ FracLt(row.body_pct, FracOfInt(config.min_body_pct))
    \/ FracLt(FracOfInt(config.max_body_pct), row.body_pct)
    \/ (config.skip_zero_sigma /\ row.sigma = 0)
C9_Buy(row, config) ==
    /\ FracGe(row.dist, FracOfInt(config.entry_sigma))
    /\ (config.max_sigma # None => FracLe(row.dist, FracOfInt(config.max_sigma[1])))
C9_Sell(row, config) ==
    /\ FracLe(row.dist, FracOfInt(0 - config.entry_sigma))
    /\ (config.max_sigma # None => FracGe(row.dist, FracOfInt(0 - config.max_sigma[1])))

\* the claim as stated
C9_Original ==
    Called =>
       IF C9_Rejected(g_row, g_cfg) THEN g_ret = NoSignal
       ELSE /\ g_ret = <<TRUE, "BUY">> <=> C9_Buy(g_row, g_cfg)
            /\ g_ret = <<TRUE, "SELL">> <=> C9_Sell(g_row, g_cfg)
            /\ g_ret = NoSignal <=> (~C9_Buy(g_row, g_cfg) /\ ~C9_Sell(g_row, g_cfg))

\* the claim as amended
C9_Classifier ==
    Called =>
       IF C9_Rejected(g_row, g_cfg) THEN g_ret = NoSignal
       ELSE /\ g_ret = <<TRUE, "BUY">> <=> C9_Buy(g_row, g_cfg)
            /\ g_ret = <<TRUE, "SELL">> <=> (C9_Sell(g_row, g_cfg) /\ ~C9_Buy(g_row, g_cfg))
            /\ g_ret = NoSignal <=> (~C9_Buy(g_row, g_cfg) /\ ~C9_Sell(g_row, g_cfg))

\* SELL returned on the inclusive bounds: dist = -max_sigma, body_pct = min_body_pct,
\* vol_ratio = vol_multiplier
C9_Witness ==
    /\ g_ret = <<TRUE, "SELL">>
    /\ g_cfg.max_sigma # None
    /\ FracEq(g_row.dist, FracOfInt(0 - g_cfg.max_sigma[1]))
    /\ FracEq(g_row.body_pct, FracOfInt(g_cfg.min_body_pct))
    /\ g_row.vol_ratio.kind = "num"
    /\ FracEq(g_row.vol_ratio.val, FracOfInt(g_cfg.vol_multiplier))

(***************************************************************************)
(* C10: the BUY condition and the SELL condition of is_gold_candle are      *)
(* never both satisfied by the same bar.                                    *)
(* As amended: for every config with entry_sigma > 0.                       *)
(***************************************************************************)
\* the claim as stated, on the bars for which is_gold_candle reaches the two tests
C10_Original ==
    (Called /\ ~C9_Rejected(g_row, g_cfg)) =>
        ~(BuyCond(g_row, g_cfg) /\ SellCond(g_row, g_cfg))

\* the claim as amended
C10_Exclusive ==
    (Called /\ g_cfg.entry_sigma > 0) => ~(BuyCond(g_row, g_cfg) /\ SellCond(g_row, g_cfg))

\* a bar that passes the filters and satisfies the SELL condition alone
C10_Witness ==
    /\ Called
    /\ g_cfg.entry_sigma > 0
    /\ ~C9_Rejected(g_row, g_cfg)
    /\ SellCond(g_row, g_cfg)
    /\ ~BuyCond(g_row, g_cfg)
    /\ g_ret = <<TRUE, "SELL">>

(***************************************************************************)
(* calculate_stats                                                         *)
(***************************************************************************)
\* longest ledger handed to calculate_stats on its own
MaxTrades == 3

\* a + b, a - b and a / b on exact fractions (a common denominator is kept)
FracAdd(a, b) ==
    IF a[2] = b[2] THEN <<a[1] + b[1], a[2]>>
    ELSE <<a[1] * b[2] + b[1] * a[2], a[2] * b[2]>>
FracDiff(a, b) == FracAdd(a, FracNeg(b))
FracDiv(a, b) ==
    LET n == a[1] * b[2]
        d == a[2] * b[1]
    IN  IF d < 0 THEN <<0 - n, 0 - d>> ELSE <<n, d>>
FracMax(a, b) == IF FracGe(a, b) THEN a ELSE b
FracMin(a, b) == IF FracLe(a, b) THEN a ELSE b
FracZero == FracOfInt(0)
IsZero(f) == f[1] = 0

\* trades['pnl'] as a sequence
RECURSIVE PnlColumn(_)
PnlColumn(tr) == IF tr = <<>> THEN <<>> ELSE <<Head(tr).pnl>> \o PnlColumn(Tail(tr))

\* Series.sum(), Series.cumsum()
RECURSIVE FracSum(_)
FracSum(s) == IF s = <<>> THEN FracZero ELSE FracAdd(Head(s), FracSum(Tail(s)))
RECURSIVE CumSumAcc(_, _)
CumSumAcc(s, acc) ==
    IF s = <<>> THEN <<>>
    ELSE <<FracAdd(acc, Head(s))>> \o CumSumAcc(Tail(s), FracAdd(acc, Head(s)))
cumsum(s) == CumSumAcc(s, FracZero)

\* the running maximum of s after a maximum m
RECURSIVE CumMaxAcc(_, _)
CumMaxAcc(s, m) ==
    IF s = <<>> THEN <<>>
    ELSE <<FracMax(m, Head(s))>> \o CumMaxAcc(Tail(s), FracMax(m, Head(s)))

\* mutant of cummax: the running peak starts at zero
cummax_FromZero(s) == CumMaxAcc(s, FracZero)

\* Series.cummax(): the running maximum, which starts at the first value
cummax(s) == IF s = <<>> THEN <<>> ELSE <<Head(s)>> \o CumMaxAcc(Tail(s), Head(s))

\* (cum - cum.cummax()).min() of a non-empty ledger
RECURSIVE FracSeqMin(_)
FracSeqMin(s) ==
    IF Len(s) = 1 THEN Head(s) ELSE FracMin(Head(s), FracSeqMin(Tail(s)))
Drawdown(pnl) ==
    LET cum == cumsum(pnl)
        peak == cummax(cum)
    IN  FracSeqMin([i \in 1 .. Len(cum) |-> FracDiff(cum[i], peak[i])])

\* mutant of Ratio: no drawdown reported as 0
Ratio_ZeroWhenFlat(net, dd) ==
    IF FracLt(dd, FracZero) THEN Num(FracDiv(FracNeg(net), dd)) ELSE Num(FracZero)

\* line 353: ratio = -net / dd if dd < 0 else float('inf')
Ratio(net, dd) ==
    IF FracLt(dd, FracZero) THEN Num(FracDiv(FracNeg(net), dd)) ELSE Inf

\* len(trades[trades['outcome'] == out]), len(trades[trades['pnl'] > 0])
RECURSIVE CountOutcome(_, _)
CountOutcome(tr, out) ==
    IF tr = <<>> THEN 0
    ELSE (IF Head(tr).outcome = out THEN 1 ELSE 0) + CountOutcome(Tail(tr), out)
RECURSIVE CountWins(_)
CountWins(tr) ==
    IF tr = <<>> THEN 0
    ELSE (IF FracLt(FracZero, Head(tr).pnl) THEN 1 ELSE 0) + CountWins(Tail(tr))

\* lines 344-348: the summary of an empty ledger
EmptyStats ==
    [trades |-> 0, tp |-> 0, sl |-> 0, fc |-> 0, stop0 |-> 0, net |-> FracZero,
     dd |-> FracZero, ratio |-> Num(FracZero), win_rate |-> FracZero]

\* mutant of calculate_stats: the empty ledger is not told apart (sum and count of
\* nothing are 0, there is no drawdown)
calculate_stats_NoEmptyCase(tr) ==
    [trades |-> Len(tr),
     tp |-> CountOutcome(tr, "TP"), sl |-> CountOutcome(tr, "SL"),
     fc |-> CountOutcome(tr, "FC"), stop0 |-> CountOutcome(tr, "STOP0"),
     net |-> FracSum(PnlColumn(tr)),
     dd |-> IF tr = <<>> THEN FracZero ELSE Drawdown(PnlColumn(tr)),
     ratio |-> Ratio(FracSum(PnlColumn(tr)),
                     IF tr = <<>> THEN FracZero ELSE Drawdown(PnlColumn(tr))),
     win_rate |-> IF tr = <<>> THEN FracZero ELSE Frac(CountWins(tr) * 100, Len(tr))]

\* lines 342-368
calculate_stats(tr) ==
    IF Len(tr) = 0 THEN EmptyStats
    ELSE LET net == FracSum(PnlColumn(tr))
             dd == Drawdown(PnlColumn(tr))
         IN  [trades |-> Len(tr),
              tp |-> CountOutcome(tr, "TP"), sl |-> CountOutcome(tr, "SL"),
              fc |-> CountOutcome(tr, "FC"), stop0 |-> CountOutcome(tr, "STOP0"),
              net |-> net, dd |-> dd, ratio |-> Ratio(net, dd),
              win_rate |-> Frac(CountWins(tr) * 100, Len(tr))]

(***************************************************************************)
(* SpecStats: calculate_stats applied to a ledger drawn from Ledgers       *)
(***************************************************************************)
Outcomes == {"TP", "SL", "STOP0", "FC"}
\* the sequences of at most n elements of S (tables of rows, ledgers of trades)
SeqsUpTo(S, n) == UNION {[1 .. k -> S] : k \in 0 .. n}
\* the columns of a ledger row that calculate_stats reads: gains closed by TP or
\* FC, losses by SL or FC, a STOP0 at break-even (commission 0)
LedgerRows ==
    {[pnl |-> FracOfInt(n), outcome |-> "TP"] : n \in {1, 2}}
      \cup {[pnl |-> FracOfInt(n), outcome |-> "SL"] : n \in {-2, -1}}
      \cup {[pnl |-> FracOfInt(n), outcome |-> "FC"] : n \in {-1, 1}}
      \cup {[pnl |-> FracOfInt(0), outcome |-> "STOP0"]}

InitStats ==
    /\ p_trades \in SeqsUpTo(LedgerRows, MaxTrades)
    /\ p_pc = "stats"
    /\ p_stats = <<>>
    /\ p_df = <<>>
    /\ p_config = <<>>
    /\ a_file = <<>>
    /\ IdleEngine
    /\ IdleGold
    /\ IdleFeat
    /\ IdleOpt

\* stats = calculate_stats(trades)
PipeStats ==
    /\ p_pc = "stats"
    /\ p_stats' = calculate_stats(p_trades)
    /\ p_pc' = "done"
    /\ UNCHANGED <<p_df, p_config, p_trades, a_file>>
    /\ UNCHANGED <<engine_vars, gold_vars, opt_vars, feat_vars>>

NextStats == PipeStats

SpecStats == InitStats /\ [][NextStats]_vars

\* calculate_stats has returned
StatsDone == p_pc = "done" /\ p_stats # <<>>
\* cumulative[i] (1-based) and the highest cumulative value up to i, read off the ledger
CumAt(tr, i) == FracSum(SubSeq(PnlColumn(tr), 1, i))
PeakAt(tr, i) ==
    LET j == CHOOSE j \in 1 .. i : \A k \in 1 .. i : FracLe(CumAt(tr, k), CumAt(tr, j))
    IN  CumAt(tr, j)
DipAt(tr, i) == FracDiff(CumAt(tr, i), PeakAt(tr, i))
NeverDips(tr) ==
    \A i \in 1 .. Len(tr) : \A j \in 1 .. i : FracGe(CumAt(tr, i), CumAt(tr, j))

\* C16: for every ledger the dd returned by calculate_stats is the least value of
\* cumulative[i] - max(cumulative[0..i]) over the rows of the ledger, it is never
\* positive, and it is 0 when the cumulative curve never dips below an earlier peak.
C16_Drawdown ==
    StatsDone =>
      /\ FracLe(p_stats.dd, FracZero)
      /\ p_trades # <<>> =>
           /\ \E i \in 1 .. Len(p_trades) : FracEq(p_stats.dd, DipAt(p_trades, i))
           /\ \A i \in 1 .. Len(p_trades) : FracLe(p_stats.dd, DipAt(p_trades, i))
      /\ NeverDips(p_trades) => IsZero(p_stats.dd)

\* a ledger that gains, dips below its peak and recovers, and a summary with dd < 0
C16_Witness ==
    /\ StatsDone
    /\ Len(p_trades) = 3
    /\ FracLt(FracZero, p_trades[1].pnl)
    /\ FracLt(p_trades[2].pnl, FracZero)
    /\ FracLt(FracZero, p_trades[3].pnl)
    /\ FracLt(p_stats.dd, FracZero)

RatioIsZero(st) == st.ratio.kind = "num" /\ IsZero(st.ratio.val)

\* C17 as stated: ratio is the empty-ledger sentinel 0 exactly when the ledger is empty
C17_Original == StatsDone => (RatioIsZero(p_stats) <=> p_trades = <<>>)

\* C17: ratio is 0 for the empty ledger; for a non-empty ledger it is -net/dd when
\* dd < 0 and infinity (the no-drawdown sentinel) otherwise; so ratio is 0 exactly
\* when the ledger is empty or when dd < 0 and net = 0.
C17_Ratio ==
    StatsDone =>
      /\ p_trades = <<>> => RatioIsZero(p_stats)
      /\ (p_trades # <<>> /\ FracLt(p_stats.dd, FracZero)) =>
           /\ p_stats.ratio.kind = "num"
           /\ p_stats.ratio.val[1] * p_stats.dd[1] * p_stats.net[2]
                = (0 - p_stats.net[1]) * p_stats.ratio.val[2] * p_stats.dd[2]
      /\ (p_trades # <<>> /\ ~FracLt(p_stats.dd, FracZero)) => p_stats.ratio = Inf
      /\ RatioIsZero(p_stats) <=>
           (p_trades = <<>> \/ (FracLt(p_stats.dd, FracZero) /\ IsZero(p_stats.net)))

\* a non-empty ledger with a drawdown whose pnl sums to zero: its ratio is 0
C17_Witness ==
    /\ StatsDone
    /\ p_trades # <<>>
    /\ FracLt(p_stats.dd, FracZero)
    /\ IsZero(p_stats.net)
    /\ RatioIsZero(p_stats)

(***************************************************************************)
(* Bar tables as a caller holds them, and run_backtest as a whole          *)
(***************************************************************************)
\* longest bar table handed to the pipeline
MaxRows == 3

\* A DataFrame of bars: rows are the raw columns; features tells whether the
\* columns dist, body and body_pct exist (added by prepare_data only); vol_lb is
\* the window the columns avg_vol and vol_ratio were derived with (0: no such
\* columns).  The derived columns are functions of the raw ones, so they are
\* computed from rows where they are read.
RawTable(rows) == [rows |-> rows, features |-> FALSE, vol_lb |-> 0]
\* lines 135-157: a copy with all derived columns, window 6
prepare_data(df) == [rows |-> df.rows, features |-> TRUE, vol_lb |-> DefaultLookback]
\* lines 160-165: a copy with avg_vol and vol_ratio re-derived
update_vol_ratio(df, lookback) == [df EXCEPT !.vol_lb = lookback]
\* lines 236-240: the table run_backtest iterates over
LocalDf(df, config) ==
    IF config.vol_lookback # DefaultLookback
    THEN update_vol_ratio(df, config.vol_lookback)
    ELSE prepare_data(df)

\* df['volume'] of the rows before row idx (0-based)
VolumesBefore(rows, i) == [k \in 1 .. i |-> rows[k].volume]
\* df.iloc[idx] of the table run_backtest iterates over
RowAt(df, i, config) == FeaturedRow(df.rows[i + 1], VolumesBefore(df.rows, i), config)
\* is_gold_candle reads row['body_pct'] (line 191) once the volume test let the
\* row through: KeyError when the table has no such column
KeyError(df, row, config) ==
    /\ ~df.features
    /\ ~(row.vol_ratio.kind = "nan" \/ VolRatioLt(row.vol_ratio, config.vol_multiplier))

\* the locals of run_backtest before the loop (lines 242-251)
Locals0 ==
    [in_position |-> FALSE, entry_price |-> 0, side |-> "None", entry_idx |-> 0,
     max_profit |-> 0, stop_at_zero |-> FALSE, trades |-> <<>>, raised |-> FALSE]

\* one iteration of the loop (lines 254-333) on row i of the local table
LoopBody(st, df, i, config) ==
    LET bar == df.rows[i + 1]
        row == RowAt(df, i, config)
        t == Prefix(bar.time, 5)
        cur == CurrentPnl(st.side, st.entry_price, bar.close)
        armed == Armed(st.stop_at_zero, cur, config)
        out == IF st.in_position THEN ExitOutcome(cur, armed, bar.day, t, config)
               ELSE "None"
        still == StillOpen(st.in_position, out)
        asked == EntryEvaluated(st.in_position, out, bar.day, config)
        ledger == IF st.in_position /\ out # "None"
                  THEN Append(st.trades,
                              Trade(st.side, st.entry_idx, i, st.entry_price, bar.close,
                                    out, cur, config))
                  ELSE st.trades
    IN  IF asked /\ KeyError(df, row, config)
        THEN [st EXCEPT !.trades = ledger, !.raised = TRUE]
        ELSE LET enter == asked /\ is_gold_candle(row, config)[1]
             IN  [in_position |-> (still \/ enter),
                  entry_price |-> IF enter THEN bar.close ELSE st.entry_price,
                  side |-> IF enter THEN is_gold_candle(row, config)[2] ELSE st.side,
                  entry_idx |-> IF enter THEN i ELSE st.entry_idx,
                  max_profit |-> IF enter THEN 0
                                 ELSE IF st.in_position THEN MaxProfit(st.max_profit, cur)
                                 ELSE st.max_profit,
                  stop_at_zero |-> IF enter THEN FALSE
                                   ELSE IF st.in_position THEN armed
                                   ELSE st.stop_at_zero,
                  trades |-> ledger,
                  raised |-> FALSE]

\* for idx in range(first, len(df)), left at the first exception
RECURSIVE LoopFrom(_, _, _, _)
LoopFrom(st, df, i, config) ==
    IF i >= Len(df.rows) \/ st.raised THEN st
    ELSE LoopFrom(LoopBody(st, df, i, config), df, i + 1, config)

\* mutant of run_backtest: a position left open by the loop is closed on the last row
run_backtest_CloseAtEnd(df, config) ==
    LET st == LoopFrom(Locals0, LocalDf(df, config), 1, config)
        last == df.rows[Len(df.rows)]
        cur == CurrentPnl(st.side, st.entry_price, last.close)
    IN  [raised |-> st.raised,
         trades |-> IF st.raised THEN <<>>
                    ELSE IF st.in_position
                    THEN Append(st.trades,
                                Trade(st.side, st.entry_idx, Len(df.rows) - 1,
                                      st.entry_price, last.close, "FC", cur, config))
                    ELSE st.trades]

\* run_backtest(df, config): the ledger, or raised when an exception left the call
run_backtest(df, config) ==
    LET st == LoopFrom(Locals0, LocalDf(df, config), 1, config)
    IN  [raised |-> st.raised, trades |-> IF st.raised THEN <<>> ELSE st.trades]

(***************************************************************************)
(* SpecPipe: run_backtest then calculate_stats, as the callers chain them  *)
(* (run_backtest.py:36-37, backtester_bot.py:252-253)                      *)
(***************************************************************************)
PipeBars ==
    [close : {10, 11, 12}, open : {11}, VWAP : {11}, sigma : {1}, volume : {1, 3},
     day : {"Monday", "Sunday"}, time : {ClockStr(12, 0)}]
\* the tables of at most n bars: raw, and passed through prepare_data
TablesUpTo(bars, n) ==
    {RawTable(rows) : rows \in SeqsUpTo(bars, n)}
      \cup {prepare_data(RawTable(rows)) : rows \in SeqsUpTo(bars, n)}
PipeConfigs ==
    { BaseConfig,
      [BaseConfig EXCEPT !.vol_lookback = 2],
      [BaseConfig EXCEPT !.vol_lookback = DefaultLookback] }

InitPipe ==
    /\ p_df \in TablesUpTo(PipeBars, MaxRows)
    /\ p_config \in PipeConfigs
    /\ p_pc = "run"
    /\ p_trades = <<>>
    /\ p_stats = <<>>
    /\ a_file = <<>>
    /\ IdleEngine
    /\ IdleGold
    /\ IdleFeat
    /\ IdleOpt

\* mutant of CallerDf: the derivation writes into the caller's table
CallerDf_InPlace(df, config) == LocalDf(df, config)

\* the caller's table after run_backtest(df, config): prepare_data and
\* update_vol_ratio work on df.copy() (lines 135, 162), so it is as before
CallerDf(df, config) == df

\* trades = run_backtest(df, config)
PipeRun ==
    /\ p_pc = "run"
    /\ LET r == run_backtest(p_df, p_config)
       IN  /\ p_trades' = r.trades
           /\ p_pc' = IF r.raised THEN "raised" ELSE "stats"
    /\ p_df' = CallerDf(p_df, p_config)
    /\ UNCHANGED <<p_config, p_stats, a_file>>
    /\ UNCHANGED <<engine_vars, gold_vars, opt_vars, feat_vars>>

NextPipe == PipeRun \/ PipeStats

SpecPipe == InitPipe /\ [][NextPipe]_vars

\* no row that the loop visits is a gold candle
NeverSignals(df, config) ==
    \A i \in 1 .. Len(df.rows) - 1 : ~is_gold_candle(RowAt(df, i, config), config)[1]
AllZero(st) ==
    /\ st.trades = 0 /\ st.tp = 0 /\ st.sl = 0 /\ st.fc = 0 /\ st.stop0 = 0
    /\ IsZero(st.net) /\ IsZero(st.dd) /\ RatioIsZero(st) /\ IsZero(st.win_rate)

\* C18: on a prepared bar table that is empty, has a single bar or never signals,
\* run_backtest returns (no exception) an empty ledger, and calculate_stats of an
\* empty ledger is the summary whose nine entries are all 0.
C18_AllZero ==
    /\ (p_df.features /\ (Len(p_df.rows) <= 1 \/ NeverSignals(p_df, p_config))) =>
         /\ p_pc # "raised"
         /\ p_pc \in {"stats", "done"} => p_trades = <<>>
    /\ (StatsDone /\ p_trades = <<>>) => AllZero(p_stats)

\* three prepared bars, window 1, the last bar with the volume of a spike, and the
\* all-zero summary returned
C18_Witness ==
    /\ StatsDone
    /\ p_df.features
    /\ Len(p_df.rows) = 3
    /\ p_config.vol_lookback = 1
    /\ p_df.rows[3].volume = 3
    /\ NeverSignals(p_df, p_config)
    /\ p_trades = <<>>
    /\ AllZero(p_stats)

(***************************************************************************)
(* Warm-up                                                                 *)
(***************************************************************************)
\* C20: row 0 is never evaluated (after it nothing is open, nothing is emitted and
\* the classifier was not consulted); the average volume of the row about to be
\* read is undefined exactly while fewer than config.vol_lookback rows precede it,
\* and is taken over the vol_lookback rows before it; no open position and no
\* emitted trade has an entry row index smaller than config.vol_lookback.
C20_WarmUp ==
    /\ idx <= 1 => (~in_position /\ trades = <<>> /\ signal = "None")
    /\ idx >= 1 =>
         /\ Len(vol_hist) = (IF idx < cfg.vol_lookback THEN idx ELSE cfg.vol_lookback)
         /\ AvgVol(vol_hist, cfg.vol_lookback).kind = "nan" <=> idx < cfg.vol_lookback
    /\ in_position => (entry_idx >= 1 /\ entry_idx >= cfg.vol_lookback)
    /\ \A k \in 1 .. Len(trades) :
         /\ trades[k].entry_idx >= 1
         /\ trades[k].entry_idx >= cfg.vol_lookback
         /\ trades[k].exit_idx > trades[k].entry_idx

\* window 2: a trade entered on row 2, the first row with a defined average
C20_Witness ==
    /\ cfg.vol_lookback = 2
    /\ Len(trades) > 0
    /\ LastTrade.entry_idx = 2

(***************************************************************************)
(* optimize_parameters                                                     *)
(***************************************************************************)
\* the fields of the dataclass StrategyConfig
ConfigFields == DOMAIN BaseConfig

\* keys = list(param_grid.keys()), values = list(param_grid.values())
GridKeys(grid) == [i \in 1 .. Len(grid) |-> grid[i][1]]
GridValues(grid) == [i \in 1 .. Len(grid) |-> grid[i][2]]

RECURSIVE Concat(_)
Concat(ss) == IF ss = <<>> THEN <<>> ELSE Head(ss) \o Concat(Tail(ss))
\* list(itertools.product(*values)): the last list varies fastest; one empty
\* tuple when there is no list, nothing when some list is empty
RECURSIVE Product(_)
Product(lists) ==
    IF lists = <<>> THEN << <<>> >>
    ELSE LET rest == Product(Tail(lists))
         IN  Concat([i \in 1 .. Len(Head(lists)) |->
                       [j \in 1 .. Len(rest) |-> <<Head(lists)[i]>> \o rest[j]]])

\* dict(zip(keys, combo))
Zip(keys, combo) ==
    [k \in {keys[i] : i \in 1 .. Len(keys)} |->
       combo[CHOOSE i \in 1 .. Len(keys) : keys[i] = k]]

\* lines 453-470: the twelve fields copied from base_config (no_entry_days is not
\* among them), then the combination's keys
ConfigDict(base, keys, combo) ==
    [k \in (ConfigFields \ {"no_entry_days"}) \cup DOMAIN Zip(keys, combo) |->
       IF k \in DOMAIN Zip(keys, combo) THEN Zip(keys, combo)[k] ELSE base[k]]

\* StrategyConfig(**config_dict) raises TypeError on a keyword that is no field
TypeError(d) == ~(DOMAIN d \subseteq ConfigFields)
\* StrategyConfig(**config_dict): a field that is not passed takes its default
\* (only no_entry_days can be missing: None, which __post_init__ replaces)
StrategyConfig(d) ==
    [k \in ConfigFields |-> IF k \in DOMAIN d THEN d[k] ELSE DefaultNoEntryDays]

\* result = {key: value ...}; result.update(stats)
Update(result, stats) ==
    [k \in DOMAIN result \cup DOMAIN stats |->
       IF k \in DOMAIN stats THEN stats[k] ELSE result[k]]

\* rows in non-increasing order of 'net'
SortedByNet(t) ==
    \A i \in 1 .. Len(t) : \A j \in i .. Len(t) : FracGe(t[i]["net"], t[j]["net"])
\* pd.DataFrame(results).sort_values('net', ascending=False): the default
\* quicksort leaves rows of equal net in any order
SortValues(results) ==
    {t \in {[i \in 1 .. Len(results) |-> results[p[i]]] :
              p \in Permutations(1 .. Len(results))} : SortedByNet(t)}

(***************************************************************************)
(* SpecOpt: optimize_parameters(df, param_grid, base_config), one          *)
(* combination of the product per step                                     *)
(***************************************************************************)
OptBars ==
    [close : {10, 12}, open : {11}, VWAP : {11}, sigma : {1}, volume : {1},
     day : {"Monday", "Sunday"}, time : {ClockStr(12, 0)}]
\* base configs: the default no-entry days, and a base that allows every day
OptBases == {BaseConfig, [BaseConfig EXCEPT !.no_entry_days = {}]}
\* param_grid as a sequence of <<key, values>> in the order of the dict
Grids ==
    { <<>>,
      << <<"sl", <<2, 1>> >> >>,
      << <<"tp", <<3, 1>> >>, <<"sl", <<2, 3>> >> >>,
      << <<"sl", <<>> >> >>,
      << <<"tp", <<3>> >>, <<"sl", <<>> >> >>,
      << <<"vol_lookback", <<DefaultLookback, 1>> >> >>,
      << <<"take_profit", <<3>> >> >> }

InitOpt ==
    /\ p_df \in TablesUpTo(OptBars, MaxRows)
    /\ p_config \in OptBases
    /\ o_grid \in Grids
    /\ o_k = 0
    /\ o_results = <<>>
    /\ o_configs = <<>>
    /\ o_table = <<>>
    /\ o_pc = "loop"
    /\ p_pc = "idle"
    /\ p_trades = <<>>
    /\ p_stats = <<>>
    /\ a_file = <<>>
    /\ IdleEngine
    /\ IdleGold
    /\ IdleFeat

Combos == Product(GridValues(o_grid))

\* lines 451-481: the body of "for combo in itertools.product(*values)".  An
\* exception (TypeError of StrategyConfig, KeyError inside run_backtest) leaves
\* optimize_parameters: there is no try block.
OptCombo ==
    /\ o_pc = "loop"
    /\ o_k < Len(Combos)
    /\ LET keys == GridKeys(o_grid)
           combo == Combos[o_k + 1]
           d == ConfigDict(p_config, keys, combo)
       IN  IF TypeError(d)
           THEN /\ o_pc' = "raised"
                /\ UNCHANGED <<o_k, o_results, o_configs, p_df>>
           ELSE LET config == StrategyConfig(d)
                    r == run_backtest(p_df, config)
                IN  /\ o_configs' = Append(o_configs, config)
                    /\ p_df' = CallerDf(p_df, config)
                    /\ IF r.raised
                       THEN /\ o_pc' = "raised"
                            /\ UNCHANGED <<o_k, o_results>>
                       ELSE /\ o_results' = Append(o_results,
                                                   Update(Zip(keys, combo),
                                                          calculate_stats(r.trades)))
                            /\ o_k' = o_k + 1
                            /\ o_pc' = "loop"
    /\ UNCHANGED <<o_grid, o_table, p_config, p_pc, p_trades, p_stats, a_file>>
    /\ UNCHANGED <<engine_vars, gold_vars, feat_vars>>

\* line 483: return pd.DataFrame(results).sort_values('net', ascending=False).
\* With no row the frame has no column 'net' and sort_values raises KeyError.
OptReturn ==
    /\ o_pc = "loop"
    /\ o_k = Len(Combos)
    /\ IF o_results = <<>>
       THEN /\ o_pc' = "raised"
            /\ o_table' = o_table
       ELSE /\ o_pc' = "returned"
            /\ o_table' \in SortValues(o_results)
    /\ UNCHANGED <<o_grid, o_k, o_results, o_configs>>
    /\ UNCHANGED <<pipe_vars, engine_vars, gold_vars, feat_vars>>

NextOpt == OptCombo \/ OptReturn

SpecOpt == InitOpt /\ [][NextOpt]_vars

(***************************************************************************)
(* Claims about optimize_parameters                                        *)
(***************************************************************************)
\* the product of the lengths of the grid lists
RECURSIVE GridSize(_)
GridSize(lists) == IF lists = <<>> THEN 1 ELSE Len(Head(lists)) * GridSize(Tail(lists))
\* optimize_parameters was left, by return or by an exception
OptLeft == o_pc \in {"returned", "raised"}
\* every combination of the product was run and gave a row
AllCombosRan == o_k = Len(Combos)

\* C11: once every combination has been run, optimize_parameters returns a table
\* with as many rows as the product of the grid-list lengths (0 rows when a list
\* is empty), ordered non-increasing by net.
C11_RowCount ==
    (OptLeft /\ AllCombosRan) =>
      /\ o_pc = "returned"
      /\ Len(o_table) = GridSize(GridValues(o_grid))
      /\ SortedByNet(o_table)

\* C12: the row appended for a combination holds, under every grid key, the value
\* the combination assigned to that key.
C12_RowValues ==
    \A j \in 1 .. Len(o_results) : \A i \in 1 .. Len(o_grid) :
      o_results[j][GridKeys(o_grid)[i]] = Combos[j][i]

\* C13: the config handed to run_backtest for a combination has the combination's
\* value in every field the grid names and the base config's value in every
\* other field, no_entry_days included.
C13_DerivedConfig ==
    \A j \in 1 .. Len(o_configs) : \A f \in ConfigFields :
      o_configs[j][f] =
        IF f \in DOMAIN Zip(GridKeys(o_grid), Combos[j])
        THEN Zip(GridKeys(o_grid), Combos[j])[f]
        ELSE p_config[f]

\* the summary a run of its own gives for config on the table df
AloneStats(df, config) == calculate_stats(run_backtest(df, config).trades)
\* t holds the rows of r, each as often as r does
SameRows(t, r) ==
    /\ Len(t) = Len(r)
    /\ \A x \in {r[i] : i \in 1 .. Len(r)} \cup {t[i] : i \in 1 .. Len(t)} :
         Cardinality({i \in 1 .. Len(r) : r[i] = x})
           = Cardinality({i \in 1 .. Len(t) : t[i] = x})

C15_NoAbort == o_pc = "raised" => AllCombosRan

(***************************************************************************)
(* SpecAuto: run_backtest_auto(file_path) of backtester_bot.py, up to the  *)
(* summary (lines 169-253)                                                 *)
(***************************************************************************)
\* the columns validate_file requires (σ written sigma, День written day)
RequiredCols ==
    {"date", "time", "open", "high", "low", "close", "volume", "VWAP", "sigma", "day",
     "week_key"}
\* rows of the sheet 'Data'; date orders the bars in time
AutoBars ==
    [date : {1, 2}, close : {10, 12}, open : {11}, VWAP : {11}, sigma : {1}, volume : {1},
     day : {"Monday"}, time : {ClockStr(12, 0)}]
\* what file_path names: whether it exists, its extension, whether it has a
\* sheet 'Data', the columns of that sheet and its rows
Files(n) ==
    [exists : BOOLEAN, xlsx : BOOLEAN, data_sheet : BOOLEAN,
     columns : {RequiredCols, RequiredCols \ {"sigma"}, RequiredCols \ {"date", "VWAP"}},
     rows : SeqsUpTo(AutoBars, n)]

\* lines 53-86: <<is_valid, message>> (a file that cannot be parsed is not modelled)
validate_file(file) ==
    IF ~file.exists THEN <<FALSE, "not found">>
    ELSE IF ~file.xlsx THEN <<FALSE, "not .xlsx">>
    ELSE IF ~file.data_sheet THEN <<FALSE, "no sheet Data">>
    ELSE IF RequiredCols \ file.columns # {} THEN <<FALSE, "missing columns">>
    ELSE <<TRUE, "OK">>

InitAuto ==
    /\ a_file \in Files(MaxRows)
    /\ p_pc = "validate"
    /\ p_df = <<>>
    /\ p_config = <<>>
    /\ p_trades = <<>>
    /\ p_stats = <<>>
    /\ IdleEngine
    /\ IdleGold
    /\ IdleFeat
    /\ IdleOpt

\* lines 170-173: an invalid file is reported and None is returned
AutoValidate ==
    /\ p_pc = "validate"
    /\ p_pc' = IF validate_file(a_file)[1] THEN "load" ELSE "rejected"
    /\ UNCHANGED <<p_df, p_config, p_trades, p_stats, a_file>>
    /\ UNCHANGED <<engine_vars, gold_vars, opt_vars, feat_vars>>

\* lines 178-195: read the sheet, choose the asset's config (ETH_CONFIG or
\* BTC_CONFIG, here the scaled BaseConfig), prepare_data
AutoLoad ==
    /\ p_pc = "load"
    /\ p_df' = prepare_data(RawTable(a_file.rows))
    /\ p_config' = BaseConfig
    /\ p_pc' = "run"
    /\ UNCHANGED <<p_trades, p_stats, a_file>>
    /\ UNCHANGED <<engine_vars, gold_vars, opt_vars, feat_vars>>

NextAuto == AutoValidate \/ AutoLoad \/ PipeRun \/ PipeStats

SpecAuto == InitAuto /\ [][NextAuto]_vars

Chronological(rows) ==
    \A i \in 1 .. Len(rows) : \A j \in i .. Len(rows) : rows[i].date <= rows[j].date
\* the input is invalid: a required column is missing, there is no bar, or the
\* bars are not in chronological order
InvalidInput(file) ==
    \/ RequiredCols \ file.columns # {}
    \/ file.rows = <<>>
    \/ ~Chronological(file.rows)

\* C19: on invalid input run_backtest_auto stops at the validation: the file is
\* rejected, run_backtest is not reached and no trade is emitted.
C19_FailFast ==
    InvalidInput(a_file) =>
      /\ p_pc \in {"validate", "rejected"}
      /\ p_trades = <<>>

(***************************************************************************)
(* SpecFeat: prepare_data and update_vol_ratio on tables with their        *)
(* columns written out, applied to a raw table and then to their own       *)
(* output                                                                  *)
(***************************************************************************)
\* longest table whose columns are derived, and the number of calls in a row
MaxFeatRows == 7
MaxCalls == 2

\* A table is its sequence of rows, a row maps the names of its columns to values.
\* df[name]
Column(t, name) == [i \in 1 .. Len(t) |-> t[i][name]]
\* df[name] = col
SetColumn(t, name, col) ==
    [i \in 1 .. Len(t) |->
       [c \in DOMAIN t[i] \cup {name} |-> IF c = name THEN col[i] ELSE t[i][c]]]

\* mutant of VolumeSource: the mean is taken over the avg_vol column of an earlier
\* derivation (its numerators) where there is one
VolumeSource_Derived(t) ==
    [i \in 1 .. Len(t) |->
       IF "avg_vol" \in DOMAIN t[i] /\ t[i]["avg_vol"].kind = "num"
       THEN t[i]["avg_vol"].val[1]
       ELSE t[i]["volume"]]

\* lines 154, 163: the column the rolling mean is taken over, df['volume']
VolumeSource(t) == Column(t, "volume")

\* lines 163-164 (154-155 with lookback 6) on the copy: avg_vol, then vol_ratio
VolRatioColumns(t, lookback) ==
    LET src == VolumeSource(t)
        a == SetColumn(t, "avg_vol",
                       [i \in 1 .. Len(t) |-> AvgVol(SubSeq(src, 1, i - 1), lookback)])
    IN  SetColumn(a, "vol_ratio",
                  [i \in 1 .. Len(a) |-> VolRatio(a[i]["volume"], a[i]["avg_vol"])])

\* update_vol_ratio(df, lookback), lines 160-165
update_vol_ratio_columns(t, lookback) == VolRatioColumns(t, lookback)

\* prepare_data(df), lines 136-157
prepare_data_columns(t) ==
    LET d == SetColumn(t, "dist", [i \in 1 .. Len(t) |-> Dist(t[i])])
        b == SetColumn(d, "body", [i \in 1 .. Len(d) |-> Abs(d[i]["close"] - d[i]["open"])])
        p == SetColumn(b, "body_pct",
                       [i \in 1 .. Len(b) |-> Frac(b[i]["body"] * 100, b[i]["close"])])
        u == SetColumn(p, "bullish", [i \in 1 .. Len(p) |-> p[i]["close"] > p[i]["open"]])
        e == SetColumn(u, "bearish", [i \in 1 .. Len(u) |-> u[i]["close"] < u[i]["open"]])
    IN  VolRatioColumns(e, DefaultLookback)

FeatBars ==
    [close : {10}, open : {11}, VWAP : {11}, sigma : {1}, volume : {0, 1}]
FeatLookbacks == {1, 2, DefaultLookback}

InitFeat ==
    /\ f_df \in SeqsUpTo(FeatBars, MaxFeatRows)
    /\ f_out = <<>>
    /\ f_lb = 0
    /\ f_n = 0
    /\ IdleEngine
    /\ IdleGold
    /\ IdlePipe
    /\ IdleOpt

\* the table the next call is applied to: the raw table, then the last output
FeatArg == IF f_n = 0 THEN f_df ELSE f_out

\* out = prepare_data(arg); the argument is copied (line 136), not written to
FeatPrepare ==
    /\ f_n < MaxCalls
    /\ f_out' = prepare_data_columns(FeatArg)
    /\ f_lb' = DefaultLookback
    /\ f_n' = f_n + 1
    /\ f_df' = f_df
    /\ UNCHANGED <<engine_vars, gold_vars, pipe_vars, opt_vars>>

\* out = update_vol_ratio(arg, lookback); the argument is copied (line 162)
FeatUpdate ==
    /\ f_n < MaxCalls
    /\ \E lookback \in FeatLookbacks :
         /\ f_out' = update_vol_ratio_columns(FeatArg, lookback)
         /\ f_lb' = lookback
    /\ f_n' = f_n + 1
    /\ f_df' = f_df
    /\ UNCHANGED <<engine_vars, gold_vars, pipe_vars, opt_vars>>

NextFeat == FeatPrepare \/ FeatUpdate

SpecFeat == InitFeat /\ [][NextFeat]_vars

\* tables a and b have the same avg_vol and vol_ratio columns
SameVolColumns(a, b) ==
    /\ Len(a) = Len(b)
    /\ Column(a, "avg_vol") = Column(b, "avg_vol")
    /\ Column(a, "vol_ratio") = Column(b, "vol_ratio")
RawCols == DOMAIN [close |-> 0, open |-> 0, VWAP |-> 0, sigma |-> 0, volume |-> 0]

\* C21: after any sequence of prepare_data / update_vol_ratio calls, each applied
\* to the output of the one before, avg_vol and vol_ratio are those that the last
\* call's window gives directly on the raw table; applying the last call once more
\* changes neither column (prepare_data changes no column at all); the raw columns
\* are carried through unchanged; and no call changes the table it was handed.
C21_Idempotent ==
    /\ [](f_n >= 1 =>
            /\ SameVolColumns(f_out, update_vol_ratio_columns(f_df, f_lb))
            /\ SameVolColumns(update_vol_ratio_columns(f_out, f_lb), f_out)
            /\ f_lb = DefaultLookback =>
                 SameVolColumns(prepare_data_columns(f_out), f_out)
            /\ f_out = prepare_data_columns(f_df) =>
                 prepare_data_columns(f_out) = f_out
            /\ \A i \in 1 .. Len(f_df) : \A c \in RawCols : f_out[i][c] = f_df[i][c])
    /\ [][f_df' = f_df]_vars

\* seven rows, two calls: window 6 after another window, with a defined average
\* on the last row
C21_Witness ==
    /\ f_n = 2
    /\ f_lb = DefaultLookback
    /\ Len(f_out) = 7
    /\ f_out[7]["avg_vol"].kind = "num"
    /\ f_out[7]["vol_ratio"].kind = "num"
    /\ f_out # update_vol_ratio_columns(f_df, 1)

(***************************************************************************)
(* SpecSigma: run_backtest on prepared tables with sigma = 0 rows, under   *)
(* both values of skip_zero_sigma                                          *)
(***************************************************************************)
SigmaBars ==
    [close : {10, 12}, open : {11}, VWAP : {9}, sigma : {0, 1}, volume : {1},
     day : {"Monday"}, time : {ClockStr(12, 0)}]
\* StrategyConfig accepts any entry_sigma, also 0 and negative ones
SigmaConfigs ==
    { [BaseConfig EXCEPT !.skip_zero_sigma = sk, !.entry_sigma = es] :
        sk \in BOOLEAN, es \in {0 - 1, 0, 1} }

InitSigma ==
    /\ p_df \in {prepare_data(RawTable(rows)) : rows \in SeqsUpTo(SigmaBars, MaxRows)}
    /\ p_config \in SigmaConfigs
    /\ p_pc = "run"
    /\ p_trades = <<>>
    /\ p_stats = <<>>
    /\ a_file = <<>>
    /\ IdleEngine
    /\ IdleGold
    /\ IdleFeat
    /\ IdleOpt

SpecSigma == InitSigma /\ [][NextPipe]_vars

\* the locals of run_backtest(df, config) when the loop has gone through row n - 1
RunPrefix(df, config, n) ==
    LET local == LocalDf(df, config)
    IN  LoopFrom(Locals0, [local EXCEPT !.rows = SubSeq(local.rows, 1, n)], 1, config)
\* the iteration of row i (lines 323-333) opened a position
EnteredAt(df, config, i) ==
    LET st == RunPrefix(df, config, i + 1)
    IN  ~st.raised /\ st.in_position /\ st.entry_idx = i
\* the rows (0-based) whose sigma is 0
ZeroSigmaRows(df) == {i \in 0 .. Len(df.rows) - 1 : df.rows[i + 1].sigma = 0}

\* C22: on every row with sigma = 0 the derived dist is 0, whatever
\* skip_zero_sigma is.  With skip_zero_sigma true no such row is a gold candle, no
\* position is entered on one and no trade of the ledger was entered on one; with
\* skip_zero_sigma false such a row signals, and a position is entered on it, only
\* when entry_sigma <= 0.
C22_ZeroSigma ==
    \A i \in ZeroSigmaRows(p_df) :
       LET row == RowAt(p_df, i, p_config)
           gold == is_gold_candle(row, p_config)[1]
           entered == \/ i >= 1 /\ EnteredAt(p_df, p_config, i)
                      \/ \E k \in 1 .. Len(p_trades) : p_trades[k].entry_idx = i
       IN  /\ IsZero(row.dist)
           /\ IsZero(Dist(p_df.rows[i + 1]))
           /\ p_config.skip_zero_sigma => ~gold /\ ~entered
           /\ (gold \/ entered) => ~p_config.skip_zero_sigma /\ p_config.entry_sigma <= 0

\* skip_zero_sigma false, entry_sigma 0: a trade of the returned ledger was entered
\* on a row with sigma = 0
C22_Witness ==
    /\ p_pc = "stats"
    /\ ~p_config.skip_zero_sigma
    /\ p_config.entry_sigma = 0
    /\ \E k \in 1 .. Len(p_trades) : p_trades[k].entry_idx \in ZeroSigmaRows(p_df)

(***************************************************************************)
(* Order of entry and exit rows in the ledger (Spec)                       *)
(***************************************************************************)
\* C23: every trade of the ledger was closed on a row strictly after the row it
\* was entered on (the management block runs before the entry block, so a
\* position is first managed on the row after its entry, even when its entry row
\* meets an exit condition), the ledger is in strictly increasing order of exit
\* row, and no trade was entered before the trade before it was closed.
C23_ExitAfterEntry ==
    /\ \A k \in 1 .. Len(trades) : trades[k].exit_idx > trades[k].entry_idx
    /\ \A k \in 1 .. Len(trades) - 1 :
         /\ trades[k].exit_idx < trades[k + 1].exit_idx
         /\ trades[k].exit_idx <= trades[k + 1].entry_idx
    /\ JustEntered => \A k \in 1 .. Len(trades) : trades[k].entry_idx < entry_idx

\* a position was force-closed on a Sunday row at fc_time, another one was entered
\* on that same row, which meets the forced-close condition, and stays open
C23_Witness ==
    /\ JustClosed
    /\ LastTrade.outcome = "FC"
    /\ JustEntered
    /\ ForcedClose(day, time_str, cfg)

(***************************************************************************)
(* Positions opened against trades returned (SpecPipe)                     *)
(***************************************************************************)
\* the rows (0-based) on which run_backtest(df, config) opened a position
OpenedRows(df, config) == {i \in 1 .. Len(df.rows) - 1 : EnteredAt(df, config, i)}
\* the locals of run_backtest(df, config) when the loop is over
FinalLocals(df, config) == RunPrefix(df, config, Len(df.rows))
RunReturned == p_pc \in {"stats", "done"}

\* C24: when run_backtest returns, a position that the loop left open has no trade
\* in the ledger (it is not closed at the end of the data); the number of positions
\* opened minus the number of trades is 0 or 1, and is 1 exactly when the loop
\* ended with in_position true.
C24_OpenAtEnd ==
    RunReturned =>
      LET final == FinalLocals(p_df, p_config)
          left == Cardinality(OpenedRows(p_df, p_config)) - Len(p_trades)
      IN  /\ left \in {0, 1}
          /\ left = 1 <=> final.in_position
          /\ final.in_position =>
               /\ final.entry_idx \in OpenedRows(p_df, p_config)
               /\ \A k \in 1 .. Len(p_trades) : p_trades[k].entry_idx # final.entry_idx
          /\ p_trades = final.trades

\* two positions were opened, the first one is in the ledger, the second one was
\* still open when the rows ran out
C24_Witness ==
    /\ RunReturned
    /\ Len(p_trades) = 1
    /\ Cardinality(OpenedRows(p_df, p_config)) = 2
    /\ FinalLocals(p_df, p_config).in_position

(***************************************************************************)
(* Sign and range of the pnl by outcome (Spec)                             *)
(***************************************************************************)
\* pnl before commission of a ledger row: exit_pnl of lines 279-298
Gross(t) == FracAdd(t.pnl, Commission(t.entry_price, t.exit_price, cfg))

\* C25: every FC trade has a pnl before commission, the unrealized pnl at its exit
\* row, strictly between -sl and tp, and strictly positive when stop_at_zero was
\* set when it was closed; with commission >= 0 and prices >= 0 every SL and STOP0
\* trade has pnl <= 0, so the trades calculate_stats counts as wins (pnl > 0) are
\* TP or FC trades.
C25_SignByOutcome ==
    /\ [](\A k \in 1 .. Len(trades) :
            LET t == trades[k]
                u == Unrealized(t.side, t.entry_price, t.exit_price)
            IN  /\ t.outcome = "FC" =>
                     /\ FracEq(Gross(t), FracOfInt(u))
                     /\ 0 - cfg.sl < u
                     /\ u < cfg.tp
                /\ t.outcome \in {"SL", "STOP0"} =>
                     /\ FracLe(t.pnl, FracZero)
                     /\ CountWins(<<t>>) = 0)
    /\ [](CountWins(trades) <= CountOutcome(trades, "TP") + CountOutcome(trades, "FC"))
    /\ [][(/\ Iterates
           /\ Emits
           /\ trades'[Len(trades')].outcome = "FC"
           /\ Armed(stop_at_zero, Unrealized(side, entry_price, close'), cfg))
          => Unrealized(side, entry_price, close') > 0]_vars

\* a position was stopped out, and the next one was force-closed with the trailing
\* stop set and a profit below tp
C25_Witness ==
    /\ Len(trades) = 2
    /\ trades[1].outcome \in {"SL", "STOP0"}
    /\ JustClosed
    /\ LastTrade.outcome = "FC"
    /\ ~in_position
    /\ stop_at_zero
    /\ Unrealized(LastTrade.side, LastTrade.entry_price, LastTrade.exit_price) > 0

(***************************************************************************)
(* run_backtest on raw bars against run_backtest on prepared bars          *)
(* (SpecPipe)                                                              *)
(***************************************************************************)
\* C26: for every vol_lookback, run_backtest on a table, raw or prepared, completes
\* and returns the ledger that it returns on that table passed through
\* prepare_data.
C26_RawEqualsPrepared ==
    p_pc # "run" =>
      /\ p_pc # "raised"
      /\ ~run_backtest(prepare_data(p_df), p_config).raised
      /\ p_trades = run_backtest(prepare_data(p_df), p_config).trades

(***************************************************************************)
(* The no-drawdown sentinel and the sign of ratio (SpecStats)              *)
(***************************************************************************)
Sign(f) == IF f[1] * f[2] > 0 THEN 1 ELSE IF f[1] = 0 THEN 0 ELSE 0 - 1

\* C27: the running peak starts at the first cumulative value, so for a non-empty
\* ledger calculate_stats returns the infinite ratio exactly when no row of the
\* ledger brings the cumulative curve below an earlier value of it; a ledger of a
\* single losing trade has dd = 0 and the infinite ratio although its net is
\* negative; and whenever dd < 0, ratio is a number with the sign of net.
C27_Sentinel ==
    (StatsDone /\ p_trades # <<>>) =>
      /\ cummax(cumsum(PnlColumn(p_trades)))[1] = p_trades[1].pnl
      /\ p_stats.ratio = Inf <=> NeverDips(p_trades)
      /\ (Len(p_trades) = 1 /\ FracLt(p_trades[1].pnl, FracZero)) =>
           /\ IsZero(p_stats.dd)
           /\ p_stats.ratio = Inf
           /\ FracLt(p_stats.net, FracZero)
      /\ FracLt(p_stats.dd, FracZero) =>
           /\ p_stats.ratio.kind = "num"
           /\ Sign(p_stats.ratio.val) = Sign(p_stats.net)

\* the summary of a single losing trade: no drawdown, infinite ratio, negative net
C27_Witness ==
    /\ StatsDone
    /\ Len(p_trades) = 1
    /\ FracLt(p_trades[1].pnl, FracZero)
    /\ FracLt(p_stats.net, FracZero)
    /\ IsZero(p_stats.dd)
    /\ p_stats.ratio = Inf

====
